---- MODULE Spec2Model ----
(***************************************************************************)
(* A model of star (src/main.go): the startup sequence of main, and the   *)
(* request pipeline tracing(logging(router)) with the /version, /health   *)
(* and /webhook handlers.  Requests are served concurrently, one per      *)
(* connection; the only state the connections share is the wall clock the *)
(* tracing middleware reads and the configuration main leaves behind.     *)
(***************************************************************************)
EXTENDS Integers, Sequences, FiniteSets, TLC

\* ------------------------------------------------------------------ bounds
\* Nanoseconds the clock may advance during a run.
MaxTicks == 2
\* Clock value (UnixNano) at process start.
ClockStart == 9

\* The connections the server serves concurrently, one goroutine each; every
\* connection carries one request.  Two are what a claim about a pair of
\* requests needs.
Conns == {"c1", "c2"}

\* --------------------------------------------------------------- constants
Version == "dev"
NoErr == "<nil>"
ErrMissingGithubEventHeader == "missing X-GitHub-Event Header"
ErrEventNotFound == "event not defined to be parsed"
ErrParsingPayload == "error parsing payload"
ErrMissingHubSignatureHeader == "missing X-Hub-Signature Header"
ErrHMACVerificationFailed == "HMAC verification failed"
ErrInvalidHTTPMethod == "invalid HTTP Method"
ErrUnmarshal == "json: cannot unmarshal"
WatchEvent == "watch"
Ack == "Event received. Have a nice day"

\* ------------------------------------------------------------------ inputs
Secrets == {"", "s3cr3t"}
WrongSecret == "not-the-secret"
GoodToken == "110201543:AAHdqTcvCH1vGWJxfSeofSAs0K5PALDsaw"
Tokens == {"", GoodToken, "revoked"}
ChatIds ==
    { << >>, << "4", "2" >>,
      << "9", "9", "9", "9", "9", "9", "9", "9", "9", "9", "9", "9", "9", "9", "9", "9",
         "9", "9", "9", "9" >> }
RequestIds == {"", "abc"}
Events == {"", "watch", "push"}

EmptyBody == [kind |-> "empty", name |-> "", stars |-> 0, url |-> ""]
MalformedBody == [kind |-> "malformed", name |-> "", stars |-> 0, url |-> ""]
WatchBody ==
    [kind |-> "json", name |-> "star", stars |-> 42, url |-> "https://github.com/alice"]
Bodies == {EmptyBody, MalformedBody, WatchBody}

\* The X-Hub-Signature header: absent, or "sha1=" followed by the hex HMAC-SHA1
\* of the body under key k, or a value shorter than the five characters of the
\* prefix (e.g. "abc").
NoSig == [present |-> FALSE, short |-> FALSE, key |-> "", over |-> EmptyBody]
Sign(k, b) == [present |-> TRUE, short |-> FALSE, key |-> k, over |-> b]
ShortSig == [present |-> TRUE, short |-> TRUE, key |-> "", over |-> EmptyBody]

Targets ==
    { <<"GET", "/version">>, <<"GET", "/health">>, <<"POST", "/webhook">>,
      <<"GET", "/webhook">>, <<"GET", "/nope">> }

\* ------------------------------------------------------------ conversions
Digits == <<"0", "1", "2", "3", "4", "5", "6", "7", "8", "9">>

RECURSIVE FormatNat(_)
FormatNat(n) ==
    IF n < 10 THEN Digits[n + 1] ELSE FormatNat(n \div 10) \o Digits[(n % 10) + 1]

\* strconv.FormatInt(n, 10) and strconv.Itoa(n)
FormatInt(n) == IF n < 0 THEN "-" \o FormatNat(0 - n) ELSE FormatNat(n)

DigitValue(ch) == IF \E d \in 0 .. 9 : Digits[d + 1] = ch
                  THEN CHOOSE d \in 0 .. 9 : Digits[d + 1] = ch
                  ELSE -1

\* A 64-bit value is written as its decimal numeral, a sequence of digit
\* characters without leading zeros, so that the whole range can be told apart.
MaxUint64 == << "1", "8", "4", "4", "6", "7", "4", "4", "0", "7", "3", "7", "0", "9",
                "5", "5", "1", "6", "1", "5" >>
MaxInt64 == << "9", "2", "2", "3", "3", "7", "2", "0", "3", "6", "8", "5", "4", "7",
               "7", "5", "8", "0", "7" >>
MinInt64Magnitude == << "9", "2", "2", "3", "3", "7", "2", "0", "3", "6", "8", "5", "4",
                        "7", "7", "5", "8", "0", "8" >>

RECURSIVE Canonical(_)
\* The numeral without its leading zeros.
Canonical(ds) == IF Len(ds) > 1 /\ Head(ds) = "0" THEN Canonical(Tail(ds)) ELSE ds

\* a < b, for numerals without leading zeros.
NumeralLess(a, b) ==
    \/ Len(a) < Len(b)
    \/ /\ Len(a) = Len(b)
       /\ \E i \in 1 .. Len(a) :
             /\ \A j \in 1 .. (i - 1) : a[j] = b[j]
             /\ DigitValue(a[i]) < DigitValue(b[i])

RECURSIVE Numeral(_)
\* The numeral as a string.
Numeral(ds) == IF ds = << >> THEN "" ELSE Head(ds) \o Numeral(Tail(ds))

RECURSIVE ScanDigits(_, _)
\* strconv.ParseUint's loop over the characters, left to right: a character
\* that is no digit is a syntax error with value 0, a value beyond 64 bits is a
\* range error with the largest value.
ScanDigits(s, acc) ==
    IF s = << >> THEN [num |-> acc, err |-> "nil"]
    ELSE IF DigitValue(Head(s)) < 0 THEN [num |-> << "0" >>, err |-> "syntax"]
    ELSE LET n == Canonical(Append(acc, Head(s)))
         IN  IF NumeralLess(MaxUint64, n) THEN [num |-> MaxUint64, err |-> "range"]
             ELSE ScanDigits(Tail(s), n)

\* strconv.ParseUint(s, 10, 64)
ParseUint(s) ==
    IF s = << >> THEN [num |-> << "0" >>, err |-> "syntax"] ELSE ScanDigits(s, << "0" >>)

\* strconv.ParseInt(s, 10, 64): 0 with a syntax error when s is empty or is not
\* an optionally signed digit sequence, the nearest end of the int64 range with
\* a range error when the value lies outside it, else the value.
ParseInt(s) ==
    IF s = << >> THEN [val |-> "0", err |-> "syntax"]
    ELSE LET neg == Head(s) = "-"
             un  == ParseUint(IF Head(s) \in {"+", "-"} THEN Tail(s) ELSE s)
         IN  IF un.err = "syntax" THEN [val |-> "0", err |-> "syntax"]
             ELSE IF ~neg /\ NumeralLess(MaxInt64, un.num)
                  THEN [val |-> Numeral(MaxInt64), err |-> "range"]
             ELSE IF neg /\ NumeralLess(MinInt64Magnitude, un.num)
                  THEN [val |-> "-" \o Numeral(MinInt64Magnitude), err |-> "range"]
             ELSE [val |-> IF neg /\ un.num # << "0" >>
                           THEN "-" \o Numeral(un.num) ELSE Numeral(un.num),
                   err |-> "nil"]

\* getenv(key, fallback)
getenv(value, fallback) == IF Len(value) = 0 THEN fallback ELSE value

\* ------------------------------------------------------------------ logrus
\* context.Context: the value stored under requestIDKey, if any.
NoValue == [isString |-> FALSE, value |-> ""]
WithValue(v) == [isString |-> TRUE, value |-> v]

NoFields == [n |-> 0]
Entry(level, msg, fields) == [level |-> level, msg |-> msg, fields |-> fields]

\* --------------------------------------------------------------- variables
VARIABLES
    env,            \* GITHUB_SECRET, TELEGRAM_TOKEN, TELEGRAM_CHAT of the process
    pc,             \* position of main
    secret,         \* main's secret
    telegramToken,  \* main's telegramToken
    telegramChatID, \* main's telegramChatID, as its decimal numeral
    bot,            \* main's bot
    routes,         \* routes registered on the router
    listening,      \* the listener is bound
    mainLog,        \* log entries written by main
    clock,          \* time.Now().UnixNano()
    conn            \* per connection: the request in flight and its response

vars == << env, pc, secret, telegramToken, telegramChatID, bot, routes, listening,
           mainLog, clock, conn >>

mainVars == << env, pc, secret, telegramToken, telegramChatID, bot, routes,
               listening, mainLog >>

NoBot == [created |-> FALSE, token |-> "", debug |-> FALSE]
NoReq == [method |-> "", path |-> "", xRequestId |-> "", event |-> "",
          body |-> EmptyBody, sig |-> NoSig]
NoResp == [status |-> 0, body |-> "", xRequestId |-> ""]
Idle == [stage |-> "idle", depth |-> 0, req |-> NoReq, ctx |-> NoValue,
         requestID |-> "", ok |-> FALSE, resp |-> NoResp, log |-> <<>>,
         sends |-> <<>>, handled |-> FALSE]

Init ==
    /\ env \in [GITHUB_SECRET : Secrets, TELEGRAM_TOKEN : Tokens, TELEGRAM_CHAT : ChatIds]
    /\ pc = "main"
    /\ secret = ""
    /\ telegramToken = ""
    /\ telegramChatID = "0"
    /\ bot = NoBot
    /\ routes = {}
    /\ listening = FALSE
    /\ mainLog = <<>>
    /\ clock = ClockStart
    /\ conn = [c \in Conns |-> Idle]

\* ---------------------------------------------------------------------main
\* Mutant: the check of the secret is dropped.
SecretNotSet_Never(s) == FALSE

\* secret == ""
SecretNotSet(s) == s = ""

\* tgbotapi.NewBotAPI(token): the client asks the API who it is (getMe) and
\* fails when the API does not know the token or cannot be reached.
NewBotAPI(token) ==
    IF token = GoodToken
    THEN { [bot |-> [created |-> TRUE, token |-> token, debug |-> FALSE], err |-> NoErr],
           [bot |-> NoBot, err |-> "network"] }
    ELSE { [bot |-> NoBot, err |-> IF token = "" THEN "Not Found" ELSE "Unauthorized"],
           [bot |-> NoBot, err |-> "network"] }

Routes ==
    { [path |-> "/version", method |-> "GET", handler |-> "version"],
      [path |-> "/health", method |-> "GET", handler |-> "health"],
      [path |-> "/webhook", method |-> "POST", handler |-> "webhook"] }

MainSecret ==
    /\ pc = "main"
    /\ secret' = getenv(env.GITHUB_SECRET, "")
    /\ IF SecretNotSet(secret')
       THEN /\ mainLog' = mainLog \o << Entry("info", "Init Star", NoFields),
                                        Entry("fatal", "Github webhook secret not set", NoFields) >>
            /\ pc' = "exit"
       ELSE /\ mainLog' = Append(mainLog, Entry("info", "Init Star", NoFields))
            /\ pc' = "token"
    /\ UNCHANGED << env, telegramToken, telegramChatID, bot, routes, listening, clock, conn >>

MainToken ==
    /\ pc = "token"
    /\ telegramToken' = getenv(env.TELEGRAM_TOKEN, "")
    /\ mainLog' = IF telegramToken' = ""
                  THEN Append(mainLog, Entry("error", "Telegram token not set", NoFields))
                  ELSE mainLog
    /\ pc' = "chat"
    /\ UNCHANGED << env, secret, telegramChatID, bot, routes, listening, clock, conn >>

MainChat ==
    /\ pc = "chat"
    /\ LET telegramChat == getenv(env.TELEGRAM_CHAT, <<>>)
       IN  /\ mainLog' = IF telegramChat = <<>>
                         THEN Append(mainLog, Entry("error", "Telegram Chat ID not set", NoFields))
                         ELSE mainLog
           /\ telegramChatID' = ParseInt(telegramChat).val
    /\ pc' = "bot"
    /\ UNCHANGED << env, secret, telegramToken, bot, routes, listening, clock, conn >>

MainNewBot ==
    /\ pc = "bot"
    /\ \E res \in NewBotAPI(telegramToken) :
          IF res.err # NoErr
          THEN /\ mainLog' = Append(mainLog, Entry("panic", "Bot can't connect", [err |-> res.err]))
               /\ pc' = "panic"
               /\ bot' = bot
          ELSE /\ bot' = [res.bot EXCEPT !.debug = TRUE]
               /\ pc' = "routes"
               /\ mainLog' = mainLog
    /\ UNCHANGED << env, secret, telegramToken, telegramChatID, routes, listening, clock, conn >>

MainRoutes ==
    /\ pc = "routes"
    /\ routes' = Routes
    /\ pc' = "listen"
    /\ UNCHANGED << env, secret, telegramToken, telegramChatID, bot, listening, mainLog,
                    clock, conn >>

MainListen ==
    /\ pc = "listen"
    /\ \E bound \in BOOLEAN :
          IF bound
          THEN /\ listening' = TRUE
               /\ pc' = "serving"
               /\ mainLog' = Append(mainLog, Entry("info", "Serve at: ", NoFields))
          ELSE /\ listening' = FALSE
               /\ pc' = "exit"
               /\ mainLog' = mainLog \o << Entry("info", "Serve at: ", NoFields),
                                           Entry("fatal", "Server err", NoFields) >>
    /\ UNCHANGED << env, secret, telegramToken, telegramChatID, bot, routes, clock, conn >>

\* ------------------------------------------------------------------- clock
Tick ==
    /\ clock < ClockStart + MaxTicks
    /\ clock' = clock + 1
    /\ UNCHANGED << mainVars, conn >>

\* --------------------------------------------------------- response writer
\* http.ResponseWriter.WriteHeader: the first status written stands.
WriteHeader(w, code) == IF w.status = 0 THEN [w EXCEPT !.status = code] ELSE w

\* fmt.Fprint(w, s): the first write sends status 200 when none was sent.
Fprint(w, s) == [WriteHeader(w, 200) EXCEPT !.body = @ \o s]

\* ----------------------------------------------------- webhook validation
NilPayload == [type |-> "nil", name |-> "", stars |-> 0, url |-> ""]

\* json.Unmarshal(payload, &pl) into a WatchPayload: the fields decoded, and
\* the zero-valued payload with an error when the body is not the JSON expected.
Unmarshal(body) ==
    IF body.kind = "json"
    THEN [payload |-> [type |-> "WatchPayload", name |-> body.name, stars |-> body.stars,
                       url |-> body.url],
          err |-> NoErr, panic |-> FALSE]
    ELSE [payload |-> [type |-> "WatchPayload", name |-> "", stars |-> 0, url |-> ""],
          err |-> ErrUnmarshal, panic |-> FALSE]

\* What hook.Parse returns when it fails with err.
Failed(err) == [payload |-> NilPayload, err |-> err, panic |-> FALSE]

\* hook.Parse(r, webhook.WatchEvent) of the hook made by
\* webhook.New(webhook.Options.Secret(key)).  The signature is compared from its
\* sixth character on (signature[5:]) whatever its length: on a header shorter
\* than five characters the slice expression panics.
Parse(r, key) ==
    IF r.method # "POST" THEN Failed(ErrInvalidHTTPMethod)
    ELSE IF r.event = "" THEN Failed(ErrMissingGithubEventHeader)
    ELSE IF r.event # WatchEvent THEN Failed(ErrEventNotFound)
    ELSE IF r.body.kind = "empty" THEN Failed(ErrParsingPayload)
    ELSE IF Len(key) > 0 /\ ~r.sig.present THEN Failed(ErrMissingHubSignatureHeader)
    ELSE IF Len(key) > 0 /\ r.sig.short
         THEN [payload |-> NilPayload, err |-> NoErr, panic |-> TRUE]
    ELSE IF Len(key) > 0 /\ r.sig # Sign(key, r.body) THEN Failed(ErrHMACVerificationFailed)
    ELSE Unmarshal(r.body)

\* ----------------------------------------------------------------handlers
\* The error branch of the /webhook handler: what it logs for Parse's error.
HookErrLog(err, event) ==
    IF err # NoErr /\ err = ErrEventNotFound
    THEN << Entry("error", err, [event |-> event]) >>
    ELSE << >>

\* The celebratory marker of the template (U+1F389), spelled in ASCII.
Tada == "<U+1F389>"

\* fmt.Sprintf of the notification text.
WatchText(pl) ==
    "New Github star for *" \o pl.name \o "* repo!. \nThe *" \o pl.name
        \o "* repo now has *" \o FormatInt(pl.stars) \o "* stars! " \o Tada \o ". \nYour new fan is "
        \o pl.url

\* tgbotapi.NewMessage(chatID, text) with ParseMode markdown.
NewMessage(chatID, text) == [chatID |-> chatID, text |-> text, parseMode |-> "markdown"]

\* The WatchPayload case of the handler's type switch up to its call of
\* bot.Send: the entry logged and the message handed to the bot.
WatchCase(w, pl, chatID) ==
    [w |-> w,
     log |-> << Entry("info", "Is Watch request", NoFields) >>,
     sends |-> << NewMessage(chatID, WatchText(pl)) >>,
     pending |-> TRUE, panic |-> FALSE]

\* The /webhook handler, to its return or, for a WatchPayload, to its call of
\* bot.Send (pending); a panic of hook.Parse is not recovered and ends it.
WebhookHandler(w, r, key, chatID) ==
    LET parsed == Parse(r, key)
        errLog == HookErrLog(parsed.err, r.event)
    IN  IF parsed.panic
        THEN [w |-> w, log |-> << >>, sends |-> << >>, pending |-> FALSE, panic |-> TRUE]
        ELSE IF parsed.payload.type = "WatchPayload"
        THEN LET acted == WatchCase(w, parsed.payload, chatID)
             IN  [acted EXCEPT !.log = errLog \o @]
        ELSE [w |-> Fprint(w, Ack), log |-> errLog, sends |-> << >>, pending |-> FALSE,
              panic |-> FALSE]

\* The /webhook handler from the return of bot.Send to its own return; sent
\* says whether bot.Send succeeded.
WebhookHandlerSent(w, sent) ==
    [w |-> Fprint(Fprint(w, "OK"), Ack),
     log |-> IF sent THEN << >> ELSE << Entry("info", "Message can't send", NoFields) >>]

\* The /version handler: json.NewEncoder(w).Encode(map[string]string{...}).
VersionHandler(w) == Fprint(w, "{\"version\":\"" \o Version \o "\"}\n")

\* The /health handler.
HealthHandler(w) == Fprint(w, "OK")

\* mux.Router.ServeHTTP: the route whose path and method match, 405 when only
\* the path matches, 404 otherwise.
Match(rs, r) ==
    IF \E rt \in rs : rt.path = r.path /\ rt.method = r.method
    THEN (CHOOSE rt \in rs : rt.path = r.path /\ rt.method = r.method).handler
    ELSE IF \E rt \in rs : rt.path = r.path THEN "405"
    ELSE "404"

RouterServe(w, r, rs, key, chatID) ==
    LET h == Match(rs, r)
    IN  IF h = "webhook" THEN WebhookHandler(w, r, key, chatID)
        ELSE [w |-> CASE h = "version" -> VersionHandler(w)
                      [] h = "health" -> HealthHandler(w)
                      [] h = "405" -> WriteHeader(w, 405)
                      [] OTHER -> Fprint(WriteHeader(w, 404), "404 page not found\n"),
              log |-> << >>, sends |-> << >>, pending |-> FALSE, panic |-> FALSE]

\* ------------------------------------------------------------- middleware
\* Mutant: the middlewares are composed as logging()(tracing()(router)).
Chain_LoggingOutermost == << "logging", "tracing", "router" >>

\* srv.Handler: tracing()(logging()(router)), outermost first.
Chain == << "tracing", "logging", "router" >>

\* Mutant: no identifier is generated for a request that brings none.
TracingRequestID_NoGenerate(header, now) == header

\* tracing: the request id it puts into the context and on the response.
TracingRequestID(header, now) == IF header = "" THEN FormatInt(now) ELSE header

\* logging: requestID, ok := r.Context().Value(requestIDKey).(string)
ContextRequestID(ctx) ==
    IF ctx.isString THEN [requestID |-> ctx.value, ok |-> TRUE]
    ELSE [requestID |-> "unknown", ok |-> FALSE]

\* logging: the record written after the next handler has returned.
AccessEntry(requestID, r) ==
    Entry("info", "Request", [requestID |-> requestID, method |-> r.method, path |-> r.path])

Max(S) == CHOOSE x \in S : \A y \in S : y <= x

\* Where control goes when the handler at depth d returns: to the innermost
\* enclosing middleware that has code after next.ServeHTTP, else to the server,
\* which sends status 200 if the handlers wrote nothing.
Return(k, d) ==
    LET outer == {i \in 1 .. (d - 1) : Chain[i] = "logging"}
    IN  IF outer = {}
        THEN [k EXCEPT !.stage = "done", !.depth = 0, !.resp = WriteHeader(@, 200)]
        ELSE [k EXCEPT !.stage = "leave", !.depth = Max(outer)]

\* The requests a client may send to a server whose secret is key.
Requests(key) ==
    { r \in [method : {"GET", "POST"},
             path : {"/version", "/health", "/webhook", "/nope"},
             xRequestId : RequestIds, event : Events, body : Bodies,
             sig : {NoSig, ShortSig}
                     \cup {Sign(k, b) : k \in {key, WrongSecret}, b \in Bodies}] :
        /\ << r.method, r.path >> \in Targets
        /\ IF r.method = "POST"
           THEN (r.sig.present /\ ~r.sig.short) => r.sig.over = r.body
           ELSE r.event = "" /\ r.body = EmptyBody /\ r.sig = NoSig }

\* The server accepts a request on connection c and calls srv.Handler.
Accept(c) ==
    /\ pc = "serving"
    /\ conn[c].stage = "idle"
    /\ \E r \in Requests(secret) :
          conn' = [conn EXCEPT ![c] = [@ EXCEPT !.stage = "enter", !.depth = 1, !.req = r]]
    /\ UNCHANGED << mainVars, clock >>

\* tracing's handler, up to its call of next.ServeHTTP.
Tracing(c) ==
    /\ conn[c].stage = "enter"
    /\ Chain[conn[c].depth] = "tracing"
    /\ LET requestID == TracingRequestID(conn[c].req.xRequestId, clock)
       IN  conn' = [conn EXCEPT ![c] = [@ EXCEPT !.ctx = WithValue(requestID),
                                                 !.resp.xRequestId = requestID,
                                                 !.depth = @ + 1]]
    /\ UNCHANGED << mainVars, clock >>

\* logging's handler, up to its call of next.ServeHTTP.
LoggingBefore(c) ==
    /\ conn[c].stage = "enter"
    /\ Chain[conn[c].depth] = "logging"
    /\ LET got == ContextRequestID(conn[c].ctx)
       IN  conn' = [conn EXCEPT ![c] = [@ EXCEPT !.requestID = got.requestID,
                                                 !.ok = got.ok,
                                                 !.depth = @ + 1]]
    /\ UNCHANGED << mainVars, clock >>

\* The router and the route's handler, to the handler's return or to the
\* /webhook handler's call of bot.Send, where it waits for the chat API.  A
\* panic in the handler unwinds through logging and tracing, neither of which
\* defers anything, to the server, which closes the connection: nothing has
\* been written, no response is sent and no access record is logged.
Router(c) ==
    /\ conn[c].stage = "enter"
    /\ Chain[conn[c].depth] = "router"
    /\ LET k   == conn[c]
           out == RouterServe(k.resp, k.req, routes, secret, telegramChatID)
           k1  == [k EXCEPT !.resp = out.w, !.log = @ \o out.log,
                            !.sends = @ \o out.sends]
       IN  conn' = [conn EXCEPT ![c] =
                      IF out.panic THEN [k EXCEPT !.stage = "aborted", !.depth = 0]
                      ELSE IF out.pending THEN [k1 EXCEPT !.stage = "send"]
                      ELSE Return([k1 EXCEPT !.handled = TRUE], k.depth)]
    /\ UNCHANGED << mainVars, clock >>

\* bot.Send returns to the /webhook handler, which runs to its return.
BotSend(c) ==
    /\ conn[c].stage = "send"
    /\ \E sent \in BOOLEAN :
          LET k   == conn[c]
              out == WebhookHandlerSent(k.resp, sent)
          IN  conn' = [conn EXCEPT ![c] =
                         Return([k EXCEPT !.resp = out.w, !.log = @ \o out.log,
                                          !.handled = TRUE],
                                k.depth)]
    /\ UNCHANGED << mainVars, clock >>

\* logging's handler after next.ServeHTTP has returned.
LoggingAfter(c) ==
    /\ conn[c].stage = "leave"
    /\ Chain[conn[c].depth] = "logging"
    /\ LET k == conn[c]
       IN  conn' = [conn EXCEPT ![c] =
                      Return([k EXCEPT !.log = Append(@, AccessEntry(k.requestID, k.req))],
                             k.depth)]
    /\ UNCHANGED << mainVars, clock >>

Next ==
    \/ MainSecret
    \/ MainToken
    \/ MainChat
    \/ MainNewBot
    \/ MainRoutes
    \/ MainListen
    \/ Tick
    \/ \E c \in Conns : Accept(c)
    \/ \E c \in Conns : Tracing(c)
    \/ \E c \in Conns : LoggingBefore(c)
    \/ \E c \in Conns : Router(c)
    \/ \E c \in Conns : BotSend(c)
    \/ \E c \in Conns : LoggingAfter(c)

Spec == Init /\ [][Next]_vars

\* ================================================================== claims
IsWebhookPost(k) == k.req.method = "POST" /\ k.req.path = "/webhook"
ValidSig(k) == k.req.sig = Sign(secret, k.req.body)
ErrorEntries(k) == SelectSeq(k.log, LAMBDA e : e.level = "error")
AccessEntries(k) == SelectSeq(k.log, LAMBDA e : e.msg = "Request")

\* The request on the connection has reached the route handler and the
\* handler has ended, by returning or by a panic.
Ended(k) == k.handled \/ k.stage = "aborted"

\* C1: every POST /webhook request that reached the handler ends with status
\* 200, whatever the validation found and whether or not the chat send
\* succeeded.
C1_WebhookAlways200 ==
    \A c \in Conns :
        (Ended(conn[c]) /\ IsWebhookPost(conn[c])) => conn[c].resp.status = 200

\* C2: a POST /webhook with a valid signature and X-GitHub-Event: watch has the
\* complete response body OK, and the generic acknowledgment is the body only
\* when no event was acted on.
C2_WatchBodyIsOK ==
    \A c \in Conns :
        LET k == conn[c]
        IN  (k.handled /\ IsWebhookPost(k)) =>
                /\ (ValidSig(k) /\ k.req.event = "watch" /\ k.req.body = WatchBody)
                       => k.resp.body = "OK"
                /\ k.resp.body = Ack => k.sends = << >>

\* C3: the number of chat sends of one POST /webhook request is one when it
\* decodes to a watch payload, and zero when the signature is invalid, the
\* payload unparseable or the event type unsupported.
C3_SendsExactlyWhenDecoded ==
    \A c \in Conns :
        LET k == conn[c]
        IN  (k.handled /\ IsWebhookPost(k)) =>
                Len(k.sends) = IF ValidSig(k) /\ k.req.event = "watch"
                                  /\ k.req.body.kind = "json"
                               THEN 1 ELSE 0

\* The outcome the spec gives a request that is not acted on, with n error entries
\* that each carry the raw X-GitHub-Event header.
Absorbed(k, n) ==
    /\ Len(ErrorEntries(k)) = n
    /\ \A i \in 1 .. Len(ErrorEntries(k)) : ErrorEntries(k)[i].fields = [event |-> k.req.event]
    /\ k.resp.status = 200
    /\ k.resp.body = Ack
    /\ k.sends = << >>

\* C4: a watch request whose signature does not verify leaves exactly one error
\* entry carrying the event header, with status 200, the generic body and no
\* chat message.
C4_SignatureMismatchLogged ==
    \A c \in Conns :
        LET k == conn[c]
        IN  (Ended(k) /\ IsWebhookPost(k) /\ k.req.event = "watch" /\ ~ValidSig(k))
                => Absorbed(k, 1)

\* C5: a validly signed request of an event type other than watch
\* leaves no error entry, with status 200, the generic body and no chat message.
C5_UnsupportedEventSilent ==
    \A c \in Conns :
        LET k == conn[c]
        IN  (k.handled /\ IsWebhookPost(k) /\ ValidSig(k) /\ k.req.event \notin {"", "watch"})
                => Absorbed(k, 0)

\* C6: the response of every request carries X-Request-Id: the request's own
\* value when it brings a non-empty one, else a non-empty identifier generated
\* from the clock during the request.
C6_RequestIdEchoedOrGenerated ==
    \A c \in Conns :
        LET k == conn[c]
        IN  k.stage = "done" =>
                IF k.req.xRequestId # ""
                THEN k.resp.xRequestId = k.req.xRequestId
                ELSE /\ k.resp.xRequestId # ""
                     /\ Len(k.resp.xRequestId) > 0
                     /\ \E t \in ClockStart .. clock : k.resp.xRequestId = FormatInt(t)

\* One completed request echoing its own id, another given a generated one.
C6_Witness ==
    \E c, d \in Conns :
        /\ conn[c].stage = "done" /\ conn[d].stage = "done"
        /\ conn[c].req.xRequestId = "abc" /\ conn[c].resp.xRequestId = "abc"
        /\ conn[d].req.xRequestId = "" /\ conn[d].resp.xRequestId = FormatInt(ClockStart + 1)

\* C7: with a non-empty secret, an empty TELEGRAM_TOKEN or TELEGRAM_CHAT alone
\* never stops the startup: main does not stop at the creation of the bot
\* unless the API is unreachable or refuses a token that was given.
C7_EmptyChatSettingsNeverStopStartup ==
    ~ /\ pc = "panic"
      /\ secret # ""
      /\ telegramToken = "" \/ env.TELEGRAM_CHAT = << >>
      /\ telegramToken \in {"", GoodToken}
      /\ mainLog[Len(mainLog)].fields.err # "network"

\* C8: while the server listens or handles a request the secret is non-empty,
\* and with an empty GITHUB_SECRET main exits before the bot is created, a route
\* is registered or the listener is bound.
C8_SecretRequired ==
    /\ (listening \/ pc = "serving" \/ \E c \in Conns : conn[c].stage # "idle")
           => secret # ""
    /\ env.GITHUB_SECRET = "" =>
           /\ pc \in {"main", "exit"}
           /\ ~bot.created
           /\ routes = {}
           /\ ~listening

\* main has exited fatally on the empty secret, nothing created.
C8_Witness ==
    /\ env.GITHUB_SECRET = ""
    /\ pc = "exit"
    /\ mainLog[Len(mainLog)] = Entry("fatal", "Github webhook secret not set", NoFields)
    /\ ~bot.created /\ routes = {} /\ ~listening

\* C9: two requests that both lack X-Request-Id, concurrent or not, get distinct
\* generated identifiers on their responses.
C9_GeneratedIdsDistinct ==
    \A c, d \in Conns :
        ( /\ c # d
          /\ conn[c].resp.xRequestId # "" /\ conn[d].resp.xRequestId # ""
          /\ conn[c].req.xRequestId = "" /\ conn[d].req.xRequestId = "" )
            => conn[c].resp.xRequestId # conn[d].resp.xRequestId

\* C10: every completed request has exactly one access record, written after
\* the route handler returned and after everything the handler logged; its
\* requestID is the X-Request-Id of the response, taken from the context and
\* never from the fallback "unknown".
C10_OneAccessRecordWithRequestId ==
    \A c \in Conns :
        LET k == conn[c]
            n == Len(AccessEntries(k))
        IN  /\ n <= 1
            /\ k.stage = "done" => n = 1
            /\ n = 1 =>
                 /\ k.handled
                 /\ k.log[Len(k.log)] = AccessEntries(k)[1]
                 /\ k.ok
                 /\ AccessEntries(k)[1].fields.requestID = k.resp.xRequestId
                 /\ k.req.xRequestId # "unknown"
                        => AccessEntries(k)[1].fields.requestID # "unknown"

\* A completed watch request: the handler's entries, then the access record
\* with the generated id.
C10_Witness ==
    \E c \in Conns :
        /\ conn[c].stage = "done"
        /\ IsWebhookPost(conn[c]) /\ conn[c].req.xRequestId = ""
        /\ Len(conn[c].sends) = 1
        /\ Len(conn[c].log) >= 2
        /\ conn[c].log[Len(conn[c].log)] =
               AccessEntry(conn[c].resp.xRequestId, conn[c].req)
====
